---------------------------- MODULE Spec2Model ----------------------------
(***************************************************************************)
(* A model of ff3_cli.py: the HTTP client (Client), the operator that      *)
(* caches and deletes destination accounts (FF3Operator), the GnuCash      *)
(* account translator (GCTranslator) and the `import` command.             *)
(*                                                                         *)
(* Python strings that the code inspects (full account names, descriptions,*)
(* notes) are sequences of one-character strings, so that `in`, split,     *)
(* splitlines, join, json.dumps and json.loads are computed character by   *)
(* character.  Strings the code only compares or passes on (type codes,    *)
(* short names, currency symbols, roles) are TLA+ strings.                 *)
(*                                                                         *)
(* Library behaviour assumed: a pydantic dataclass constructor stores the  *)
(* keyword arguments it is given; requests' raise_for_status raises for    *)
(* the statuses 400..599 only; Response.json raises a JSONDecodeError that *)
(* `except json.decoder.JSONDecodeError` catches.                          *)
(***************************************************************************)
EXTENDS Integers, Sequences, FiniteSets, TLC

VARIABLES
    fail,            \* Client.fail
    srv,             \* the accounts the destination server holds
    next_id,         \* the id the server gives the next created account
    _accounts_raw,   \* FF3Operator._accounts_raw
    _accounts,       \* FF3Operator._accounts
    account_map,     \* GCTranslator.account_map
    op,              \* the last operation called, with its argument
    raised,          \* the exception the last operation raised, or "none"
    ret,             \* <<v>> when the last operation returned v, <<>> for None
    printed,         \* what the last operation printed (response bodies)
    requests         \* the HTTP requests the last operation made, in order

vars == <<fail, srv, next_id, _accounts_raw, _accounts, account_map,
          op, raised, ret, printed, requests>>

-----------------------------------------------------------------------------
(* Bounds of the model *)

MaxMap == 2          \* entries of account_map
MaxServer == 3       \* accounts held by the server
MaxCache == 4        \* records in FF3Operator._accounts
MaxRows == 2         \* rows of an imported CSV file
PageSize == 2        \* accounts per page of the server's account list
MaxInitial == 2      \* accounts the server holds before the operator runs
MaxId == 3           \* the last id the server gives out

-----------------------------------------------------------------------------
(* Python strings as sequences of characters *)

NL == "\n"
QUOTE == "\""
BACKSLASH == "\\"

MARKER == <<"I","m","p","o","r","t","e","d"," ","f","r","o","m"," ","G","n","u","C","a","s","h">>
META_OPEN == <<"-","-","m","e","t","a","-","-">>
META_END == <<"-","-","m","e","t","a","-","e","n","d","-","-">>

\* None, where a str is expected: no Python string is a sequence holding a
\* two-character element.
None == <<"None">>

\* sub in s
Contains(s, sub) ==
    \E i \in 0..(Len(s) - Len(sub)) : SubSeq(s, i + 1, i + Len(sub)) = sub

RECURSIVE IndexFrom(_, _, _)
\* the first index i >= from with s[i] = c, 0 when there is none
IndexFrom(s, c, from) ==
    IF from > Len(s) THEN 0
    ELSE IF s[from] = c THEN from
    ELSE IndexFrom(s, c, from + 1)

\* the first index of character c in s, 0 when there is none
IndexOf(s, c) == IndexFrom(s, c, 1)

RECURSIVE Split(_, _)
\* s.split(sep) for a one-character sep
Split(s, sep) ==
    LET i == IndexOf(s, sep)
    IN  IF i = 0 THEN <<s>>
        ELSE <<SubSeq(s, 1, i - 1)>> \o Split(SubSeq(s, i + 1, Len(s)), sep)

RECURSIVE splitlines(_)
\* s.splitlines(): no empty last line after a final line break
splitlines(s) ==
    IF s = <<>> THEN <<>>
    ELSE LET i == IndexOf(s, NL)
         IN  IF i = 0 THEN <<s>>
             ELSE <<SubSeq(s, 1, i - 1)>> \o splitlines(SubSeq(s, i + 1, Len(s)))

RECURSIVE Join(_, _)
\* sep.join(parts)
Join(parts, sep) ==
    IF parts = <<>> THEN <<>>
    ELSE IF Len(parts) = 1 THEN parts[1]
    ELSE parts[1] \o sep \o Join(Tail(parts), sep)

-----------------------------------------------------------------------------
(* json.dumps / json.loads on the documents the program handles: a dict is *)
(* a set of <<key, value>> pairs.                                          *)

JsonHead == <<"{","\"","n","a","m","e","\"",":"," ","\"">>
JsonTail == <<"\"","}">>
JsonEmpty == <<"{","}">>

RECURSIVE JsonEscape(_)
JsonEscape(s) ==
    IF s = <<>> THEN <<>>
    ELSE (CASE Head(s) = QUOTE -> <<BACKSLASH, QUOTE>>
            [] Head(s) = BACKSLASH -> <<BACKSLASH, BACKSLASH>>
            [] Head(s) = NL -> <<BACKSLASH, "n">>
            [] OTHER -> <<Head(s)>>) \o JsonEscape(Tail(s))

\* json.dumps({"name": name_full})
json_dumps(name_full) == JsonHead \o JsonEscape(name_full) \o JsonTail

JsonBad == [ok |-> FALSE, value |-> <<>>]

RECURSIVE JsonUnescape(_)
\* the body of a JSON string literal, decoded; a bare quote ends the
\* literal early and a bare control character is not allowed in it
JsonUnescape(s) ==
    IF s = <<>> THEN [ok |-> TRUE, value |-> <<>>]
    ELSE IF Head(s) = BACKSLASH
    THEN IF Len(s) < 2 \/ s[2] \notin {QUOTE, BACKSLASH, "n"} THEN JsonBad
         ELSE LET rest == JsonUnescape(SubSeq(s, 3, Len(s)))
                  c == IF s[2] = "n" THEN NL ELSE s[2]
              IN  IF rest.ok THEN [ok |-> TRUE, value |-> <<c>> \o rest.value]
                  ELSE JsonBad
    ELSE IF Head(s) \in {QUOTE, NL} THEN JsonBad
    ELSE LET rest == JsonUnescape(Tail(s))
         IN  IF rest.ok THEN [ok |-> TRUE, value |-> <<Head(s)>> \o rest.value]
             ELSE JsonBad

\* json.loads(s): [ok |-> FALSE] stands for JSONDecodeError (an empty
\* document, a malformed one, or data after the document)
json_loads(s) ==
    IF s = JsonEmpty THEN [ok |-> TRUE, value |-> {}]
    ELSE IF /\ Len(s) >= Len(JsonHead) + Len(JsonTail)
            /\ SubSeq(s, 1, Len(JsonHead)) = JsonHead
            /\ SubSeq(s, Len(s) - Len(JsonTail) + 1, Len(s)) = JsonTail
    THEN LET body == JsonUnescape(SubSeq(s, Len(JsonHead) + 1, Len(s) - Len(JsonTail)))
         IN  IF body.ok THEN [ok |-> TRUE, value |-> {<<"name", body.value>>}]
             ELSE JsonBad
    ELSE JsonBad


-----------------------------------------------------------------------------
(* GCAccount, FF3Account and GCTranslator.convert_account *)

S_Assets == <<"A","s","s","e","t","s">>
S_AssetsCur == <<"A","s","s","e","t","s",":","C","u","r","r","e","n","t"," ","A","s","s","e","t","s">>
S_T == <<"T">>
S_Abc == <<"A",":","b",":","c">>
S_Aq == <<"A",":","\"","q">>
S_d == <<"d">>

\* The source accounts the translator is given: a type code for each
\* destination type of the tables, EQUITY, and TRADING (a GnuCash type the
\* tables do not hold); category names, a name without a parent, a nested
\* name, a name json.dumps must escape; two descriptions.
GCTypes ==
    {"ASSET", "EXPENSE", "INCOME", "LIABILITY", "EQUITY", "TRADING"}

GCNames ==
    {<<S_Assets, "Assets">>, <<S_AssetsCur, "Current Assets">>, <<S_T, "T">>,
     <<S_Abc, "c">>, <<S_Aq, "\"q">>}

\* GCAccount: the fields convert_account reads; description is also one of
\* the fields that __eq__ compares and __hash__ does not.
GCAccount ==
    {[type_ |-> t, name_full |-> n[1], name |-> n[2], description |-> d,
      symbol |-> "EUR"] : t \in GCTypes, n \in GCNames, d \in {<<>>, S_d}}

\* FF3Account(...): a field not given keeps its default
FF3Account(name, type_, currency_code, role, notes) ==
    [type_ |-> type_, id_ |-> -1, name |-> name, role |-> role,
     currency_code |-> currency_code, include_net_worth |-> TRUE,
     notes |-> notes, _meta |-> {}]

typeMap ==
    [ASSET |-> "asset", CASH |-> "asset", BANK |-> "asset",
     EXPENSE |-> "expense", INCOME |-> "revenue", LIABILITY |-> "liability",
     CREDIT |-> "asset"]

roleMap ==
    [ASSET |-> "defaultAsset", CASH |-> "cashWalletAsset",
     BANK |-> "defaultAsset", EXPENSE |-> "expense", INCOME |-> "revenue",
     LIABILITY |-> "liability", CREDIT |-> "ccAsset"]

TopLevelNames ==
    {"Assets", "Liabilities", "Income", "Expenses", "Current Assets",
     "Credit Card"}

\* hash(acc_gc): GCAccount.__hash__
GCHash(acc_gc) == acc_gc.name_full

\* acc_gc in account_map: a key with the same hash that is == to acc_gc,
\* and the dataclass's generated __eq__ compares every field
InMap(acc_gc, amap) ==
    \E e \in amap : GCHash(e[1]) = GCHash(acc_gc) /\ e[1] = acc_gc

\* DestName with the slice [1:] forgotten
DestName_keeps_first(name_full) == Join(Split(name_full, ":"), <<":">>)

\* the name of the destination account: the qualified name without its
\* first segment
DestName(name_full) == Join(Tail(Split(name_full, ":")), <<":">>)

\* Description with the line break before the closing marker forgotten
Description_unclosed(acc_gc) ==
    acc_gc.description \o <<NL, NL>> \o MARKER \o <<NL, NL>> \o META_OPEN
        \o <<NL>> \o json_dumps(acc_gc.name_full) \o META_END \o <<NL>>

\* the notes of the destination account
Description(acc_gc) ==
    acc_gc.description \o <<NL, NL>> \o MARKER \o <<NL, NL>> \o META_OPEN
        \o <<NL>> \o json_dumps(acc_gc.name_full) \o <<NL>> \o META_END \o <<NL>>

Returned(v, amap) == [raised |-> "none", ret |-> v, account_map |-> amap]
Raised(e, amap) == [raised |-> e, ret |-> <<>>, account_map |-> amap]

\* GCTranslator.convert_account(acc_gc) on a translator whose account_map
\* is amap: what it raises or returns, and the account_map it leaves
convert_account(acc_gc, amap) ==
    IF acc_gc.name \in TopLevelNames THEN Returned(<<>>, amap)
    ELSE IF acc_gc.type_ = "EQUITY" THEN Returned(<<>>, amap)
    ELSE IF acc_gc.type_ \notin DOMAIN typeMap THEN Raised("KeyError", amap)
    ELSE IF Len(Split(acc_gc.name_full, ":")) <= 1 THEN Returned(<<>>, amap)
    ELSE LET new_type == typeMap[acc_gc.type_]
             name == DestName(acc_gc.name_full)
             description == Description(acc_gc)
             acc_ff3 ==
                 IF new_type = "asset"
                 THEN FF3Account(name, new_type, acc_gc.symbol,
                                 roleMap[acc_gc.type_], description)
                 ELSE FF3Account(name, new_type, acc_gc.symbol, "None",
                                 description)
         IN  IF new_type = "liability" THEN Raised("NotImplementedError", amap)
             ELSE IF InMap(acc_gc, amap) THEN Raised("AssertionError", amap)
             ELSE Returned(<<acc_ff3>>, amap \cup {<<acc_gc, acc_ff3>>})

-----------------------------------------------------------------------------
(* The translator on its own: convert_account called on any source account *)

NoCall == [name |-> "none", arg |-> <<>>]

InitCommon ==
    /\ op = NoCall
    /\ raised = "none"
    /\ ret = <<>>
    /\ printed = <<>>
    /\ requests = <<>>

InitTrans ==
    /\ InitCommon
    /\ fail = TRUE
    /\ srv = <<>>
    /\ next_id = 1
    /\ _accounts_raw = <<>>
    /\ _accounts = <<>>
    /\ account_map = {}

ConvertAccount(acc_gc) ==
    \E r \in {convert_account(acc_gc, account_map)} :
        /\ Cardinality(r.account_map) <= MaxMap
        /\ account_map' = r.account_map
        /\ op' = [name |-> "convert_account", arg |-> <<acc_gc, account_map>>]
        /\ raised' = r.raised
        /\ ret' = r.ret
        /\ UNCHANGED <<fail, srv, next_id, _accounts_raw, _accounts, printed,
                       requests>>

NextTrans == \E acc_gc \in GCAccount : ConvertAccount(acc_gc)

SpecTrans == InitTrans /\ [][NextTrans]_vars


-----------------------------------------------------------------------------
(* FF3Account.to_dict and the marker test of account_del_imported *)

\* acc.to_dict(): by alias, without id_ and _meta; account_role is "None"
\* where exclude_none leaves the key out
to_dict(acc) ==
    [type |-> acc.type_, name |-> acc.name, account_role |-> acc.role,
     currency_code |-> acc.currency_code,
     include_net_worth |-> acc.include_net_worth, notes |-> acc.notes]

\* notes is not None and "Imported from GnuCash" in notes
IsImported(notes) == notes # None /\ Contains(notes, MARKER)

-----------------------------------------------------------------------------
(* Claims about the translator, under SpecTrans *)

Called == op.name = "convert_account"
CalledAcc == op.arg[1]
CalledMap == op.arg[2]

HasColon(s) == \E i \in 1..Len(s) : s[i] = ":"

\* a top-level or EQUITY source account, as the specification describes it
Skipped(acc) ==
    \/ acc.name \in {"Assets", "Liabilities", "Income", "Expenses",
                     "Current Assets", "Credit Card"}
    \/ ~HasColon(acc.name_full)
    \/ acc.type_ = "EQUITY"

\* name is full with its first ':'-separated segment, and that ':', removed
IsWithoutFirstSegment(name, full) ==
    \E k \in 1..Len(full) :
        /\ full[k] = ":"
        /\ \A j \in 1..(k - 1) : full[j] # ":"
        /\ name = SubSeq(full, k + 1, Len(full))

\* notes holds a "--meta--" line, then one line that is the JSON object
\* {"name": full}, then a "--meta-end--" line
HasMetaBlock(notes, full) ==
    LET lines == splitlines(notes)
    IN  \E i \in 1..(Len(lines) - 2) :
            /\ lines[i] = META_OPEN
            /\ json_loads(lines[i + 1]) = [ok |-> TRUE, value |-> {<<"name", full>>}]
            /\ lines[i + 2] = META_END

\* C4: every record convert_account returns, and the body account_create
\* posts for it, has notes that hold the marker and the metadata block with
\* the source's full name, and passes account_del_imported's marker test.
C4_CreatedCarriesMarker ==
    (Called /\ raised = "none" /\ ret # <<>>) =>
        /\ Contains(ret[1].notes, MARKER)
        /\ HasMetaBlock(ret[1].notes, CalledAcc.name_full)
        /\ to_dict(ret[1]).notes = ret[1].notes
        /\ IsImported(to_dict(ret[1]).notes)

\* a record was returned for a source account whose name json.dumps escapes
C4_Witness ==
    /\ Called /\ raised = "none" /\ ret # <<>>
    /\ CalledAcc.name_full = S_Aq
    /\ CalledAcc.description = S_d

\* C5: a top-level or EQUITY source account, whatever its type code, makes
\* convert_account return None without raising and leave account_map alone.
C5_SkippedYieldsNone ==
    (Called /\ Skipped(CalledAcc)) =>
        raised = "none" /\ ret = <<>> /\ account_map = CalledMap

\* C6 as stated: every source account that is not skipped yields a record
\* named by the full name without its first segment.
C6_EveryOtherYieldsRecord ==
    (Called /\ ~Skipped(CalledAcc)) =>
        /\ raised = "none"
        /\ ret # <<>>
        /\ IsWithoutFirstSegment(ret[1].name, CalledAcc.name_full)

\* C6 as amended: a source account that is not skipped yields a record named
\* by the full name without its first segment when its type code maps to
\* asset, expense or revenue and it is not yet a key of account_map; a type
\* code missing from the table raises KeyError, a liability type raises
\* NotImplementedError, a key already present raises AssertionError, and
\* these three yield no record.
C6_DestNameDropsFirstSegment ==
    (Called /\ ~Skipped(CalledAcc)) =>
        IF CalledAcc.type_ \notin {"ASSET", "CASH", "BANK", "EXPENSE", "INCOME",
                                   "LIABILITY", "CREDIT"}
        THEN raised = "KeyError" /\ ret = <<>>
        ELSE IF CalledAcc.type_ = "LIABILITY"
        THEN raised = "NotImplementedError" /\ ret = <<>>
        ELSE IF CalledAcc \in {e[1] : e \in CalledMap}
        THEN raised = "AssertionError" /\ ret = <<>>
        ELSE /\ raised = "none"
             /\ ret # <<>>
             /\ IsWithoutFirstSegment(ret[1].name, CalledAcc.name_full)

\* a record was returned for a name of three segments
C6_Witness ==
    /\ Called /\ ~Skipped(CalledAcc)
    /\ CalledAcc.name_full = S_Abc
    /\ raised = "none" /\ ret # <<>>
    /\ ret[1].name = <<"b", ":", "c">>

\* C8: account_map never holds two keys with the same full account name,
\* and converting an importable account whose full name is already a key
\* fails the assertion and leaves account_map unchanged.
C8_OneKeyPerFullName ==
    /\ \A e1, e2 \in account_map :
           e1[1].name_full = e2[1].name_full => e1[1] = e2[1]
    /\ (/\ Called
        /\ ~Skipped(CalledAcc)
        /\ CalledAcc.type_ \in {"ASSET", "EXPENSE", "INCOME"}
        /\ \E e \in CalledMap : e[1].name_full = CalledAcc.name_full)
       => (raised = "AssertionError" /\ account_map = CalledMap)


-----------------------------------------------------------------------------
(* The destination server, as the client sees it: an HTTP response is      *)
(* [status, is_json, body], is_json telling whether Response.json() can    *)
(* decode the body.                                                        *)

S_Ab == <<"A",":","b">>

PageBody(data, total) == [kind |-> "page", data |-> data, total_pages |-> total]
ErrorBody == [kind |-> "error", data |-> <<>>, total_pages |-> 0]
EmptyBody == [kind |-> "empty", data |-> <<>>, total_pages |-> 0]

\* the answers of a server that does not serve the request: not modified,
\* not found, internal error, each with a JSON body or with a body that is
\* not JSON
Faults ==
    {[status |-> st, is_json |-> j, body |-> ErrorBody] :
        st \in {304, 404, 500}, j \in BOOLEAN}

\* no fault: the server serves the request
NoFault == [status |-> 0, is_json |-> FALSE, body |-> EmptyBody]

\* meta.pagination.total_pages of the account list: at least one page
TotalPages(s) ==
    IF Len(s) = 0 THEN 1 ELSE (Len(s) + PageSize - 1) \div PageSize

\* GET accounts?page=i on a server holding s
SrvGetAccounts(s, i) ==
    [status |-> 200, is_json |-> TRUE,
     body |-> PageBody(SubSeq(s, (i - 1) * PageSize + 1,
                              IF i * PageSize < Len(s) THEN i * PageSize
                              ELSE Len(s)),
                       TotalPages(s))]

\* POST accounts: the server stores the body under a new id
SrvPost(s, nid, attrs) ==
    LET d == [id |-> nid, attributes |-> attrs]
    IN  [res |-> [status |-> 200, is_json |-> TRUE,
                  body |-> [kind |-> "created", data |-> <<d>>, total_pages |-> 0]],
         srv |-> Append(s, d)]

\* DELETE accounts/<id>: 204 without a body, 404 for an id it does not hold
SrvDelete(s, id) ==
    IF \E i \in 1..Len(s) : s[i].id = id
    THEN LET Keep(d) == d.id # id
         IN  [res |-> [status |-> 204, is_json |-> FALSE, body |-> EmptyBody],
              srv |-> SelectSeq(s, Keep)]
    ELSE [res |-> [status |-> 404, is_json |-> TRUE, body |-> ErrorBody],
          srv |-> s]

-----------------------------------------------------------------------------
(* Client *)

PAGE_STOP == 100

\* res.raise_for_status() raises
IsErrorStatus(status) == 400 <= status /\ status < 600

\* PrintBody with the diagnostics left out
PrintBody_silent(f, res) == <<>>

\* post and delete, with fail set: print(res.json()), or print(res.text)
\* when the body is not JSON
PrintBody(f, res) ==
    IF f
    THEN <<[how |-> IF res.is_json THEN "json" ELSE "text", what |-> res.body]>>
    ELSE <<>>

Result(e, v, pr) == [raised |-> e, ret |-> v, printed |-> pr]

\* Client.get, given the response to its request
client_get(f, res) ==
    IF f /\ IsErrorStatus(res.status) THEN Result("HTTPError", <<>>, <<>>)
    ELSE IF ~res.is_json THEN Result("JSONDecodeError", <<>>, <<>>)
    ELSE Result("none", <<res.body>>, <<>>)

\* Client.post, given the response to its request
client_post(f, res) ==
    IF f /\ IsErrorStatus(res.status)
    THEN Result("HTTPError", <<>>, PrintBody(f, res))
    ELSE IF ~res.is_json THEN Result("JSONDecodeError", <<>>, PrintBody(f, res))
    ELSE Result("none", <<res.body>>, PrintBody(f, res))

\* Client.delete, given the response to its request
client_delete(f, res) ==
    IF f /\ IsErrorStatus(res.status)
    THEN Result("HTTPError", <<>>, PrintBody(f, res))
    ELSE Result("none", <<>>, PrintBody(f, res))

\* the response of a server holding s to the request for page i: the
\* page, or fault when i is the page k the server fails to serve
Respond(s, k, fault, i) == IF i = k THEN fault ELSE SrvGetAccounts(s, i)

RECURSIVE PagedLoop(_, _, _, _, _, _, _)
\* the loop of Client.get_paged from page i on
PagedLoop(f, s, k, fault, i, out, reqs) ==
    IF i >= PAGE_STOP
    THEN [raised |-> "none", ret |-> <<out>>, requests |-> reqs,
          last |-> Respond(s, k, fault, i - 1)]
    ELSE LET answer == Respond(s, k, fault, i)
             res == client_get(f, answer)
             sent == Append(reqs, i)
         IN  IF res.raised # "none"
             THEN [raised |-> res.raised, ret |-> <<>>, requests |-> sent,
                   last |-> answer]
             ELSE IF res.ret[1].kind # "page"
             THEN [raised |-> "KeyError", ret |-> <<>>, requests |-> sent,
                   last |-> answer]
             ELSE IF ~(res.ret[1].total_pages = i)
             THEN [raised |-> "none", ret |-> <<out \o res.ret[1].data>>,
                   requests |-> sent, last |-> answer]
             ELSE PagedLoop(f, s, k, fault, i + 1, out \o res.ret[1].data, sent)

\* Client.get_paged("accounts") against a server holding s that answers
\* the request for page k (if k > 0) by fault
get_paged(f, s, k, fault) == PagedLoop(f, s, k, fault, 1, <<>>, <<>>)

-----------------------------------------------------------------------------
(* The accounts a server may hold *)

Attrs(name, notes) ==
    [type |-> "asset", name |-> name, account_role |-> "None",
     currency_code |-> "EUR", include_net_worth |-> TRUE, notes |-> notes]

\* source accounts that convert_account translates
Importable ==
    {[type_ |-> "ASSET", name_full |-> S_Abc, name |-> "c",
      description |-> <<>>, symbol |-> "EUR"],
     [type_ |-> "EXPENSE", name_full |-> S_Aq, name |-> "\"q",
      description |-> S_d, symbol |-> "EUR"]}

\* Accounts made by hand (no notes), accounts of an import that wrote the
\* marker alone, an account whose notes (without marker) end in a metadata
\* line, and an account this program creates.
HandMade ==
    {Attrs(<<"x">>, None), Attrs(<<"o">>, MARKER),
     Attrs(<<"m">>, META_OPEN \o <<NL>> \o json_dumps(S_Ab))}

SrvAttrs ==
    HandMade \cup {to_dict(convert_account(g, {}).ret[1]) :
                      g \in {h \in Importable : h.type_ = "ASSET"}}

RECURSIVE SeqsUpTo(_, _)
\* the sequences over S of length at most n
SeqsUpTo(S, n) ==
    IF n = 0 THEN {<<>>}
    ELSE LET shorter == SeqsUpTo(S, n - 1)
         IN  shorter \cup {Append(q, x) : q \in shorter, x \in S}

\* the account with attributes q[i] has id i
WithIds(q) == [i \in 1..Len(q) |-> [id |-> i, attributes |-> q[i]]]

\* the bodies posted to the client on its own
PostBodies == {Attrs(<<"x">>, None), Attrs(<<"o">>, MARKER)}

-----------------------------------------------------------------------------
(* The client on its own, against a server that may fail a request *)

InitClient ==
    /\ InitCommon
    /\ fail \in BOOLEAN
    /\ srv \in {WithIds(q) : q \in SeqsUpTo(PostBodies, MaxServer)}
    /\ next_id = Len(srv) + 1
    /\ _accounts_raw = <<>>
    /\ _accounts = <<>>
    /\ account_map = {}

Get(page, fault) ==
    \E res \in {IF fault = NoFault THEN SrvGetAccounts(srv, page) ELSE fault} :
    \E r \in {client_get(fail, res)} :
        /\ op' = [name |-> "get", arg |-> <<res, srv>>]
        /\ raised' = r.raised
        /\ ret' = r.ret
        /\ printed' = r.printed
        /\ requests' = <<page>>
        /\ UNCHANGED <<fail, srv, next_id, _accounts_raw, _accounts, account_map>>

GetPaged(k, fault) ==
    \E r \in {get_paged(fail, srv, k, fault)} :
        /\ op' = [name |-> "get_paged", arg |-> <<r.last, srv, k>>]
        /\ raised' = r.raised
        /\ ret' = r.ret
        /\ printed' = <<>>
        /\ requests' = r.requests
        /\ UNCHANGED <<fail, srv, next_id, _accounts_raw, _accounts, account_map>>

Post(attrs, fault) ==
    \E served \in {SrvPost(srv, next_id, attrs)} :
    \E res \in {IF fault = NoFault THEN served.res ELSE fault} :
    \E r \in {client_post(fail, res)} :
        /\ Len(srv) < MaxServer
        /\ next_id <= MaxId
        /\ op' = [name |-> "post", arg |-> <<res, srv>>]
        /\ raised' = r.raised
        /\ ret' = r.ret
        /\ printed' = r.printed
        /\ requests' = <<attrs>>
        /\ srv' = IF fault = NoFault THEN served.srv ELSE srv
        /\ next_id' = IF fault = NoFault THEN next_id + 1 ELSE next_id
        /\ UNCHANGED <<fail, _accounts_raw, _accounts, account_map>>

Delete(id, fault) ==
    \E served \in {SrvDelete(srv, id)} :
    \E res \in {IF fault = NoFault THEN served.res ELSE fault} :
    \E r \in {client_delete(fail, res)} :
        /\ op' = [name |-> "delete", arg |-> <<res, srv>>]
        /\ raised' = r.raised
        /\ ret' = r.ret
        /\ printed' = r.printed
        /\ requests' = <<id>>
        /\ srv' = IF fault = NoFault THEN served.srv ELSE srv
        /\ UNCHANGED <<fail, next_id, _accounts_raw, _accounts, account_map>>

NextClient ==
    \/ \E page \in 1..(TotalPages(srv) + 1), fault \in Faults \cup {NoFault} :
           Get(page, fault)
    \/ \E k \in 0..(TotalPages(srv) + 1), fault \in Faults : GetPaged(k, fault)
    \/ \E attrs \in PostBodies, fault \in Faults \cup {NoFault} : Post(attrs, fault)
    \/ \E id \in 1..next_id, fault \in Faults \cup {NoFault} : Delete(id, fault)

SpecClient == InitClient /\ [][NextClient]_vars


-----------------------------------------------------------------------------
(* Claims about the client, under SpecClient *)

ClientCalled == op.name \in {"get", "get_paged", "post", "delete"}
LastResponse == op.arg[1]
SrvBefore == op.arg[2]

RECURSIVE ConcatPages(_, _)
\* the data arrays of pages 1..n of a server holding s, in page order
ConcatPages(s, n) ==
    IF n = 0 THEN <<>>
    ELSE ConcatPages(s, n - 1) \o SrvGetAccounts(s, n).body.data

\* C1: against a server that reports total_pages = N, get_paged requests
\* the pages 1..N once each, none above N, and returns the concatenation of
\* their data arrays in page order.
C1_PagesOnceUpToTotal ==
    (op.name = "get_paged" /\ op.arg[3] = 0) =>
        LET N == TotalPages(SrvBefore)
        IN  /\ requests = [i \in 1..N |-> i]
            /\ raised = "none"
            /\ ret = <<ConcatPages(SrvBefore, N)>>

-----------------------------------------------------------------------------
(* FF3Operator *)

RECURSIVE MetaRaw(_, _, _)
\* the inner loop of account_convert over the lines of the notes: the
\* lines collected in meta_raw
MetaRaw(lines, in_meta, meta_raw) ==
    IF lines = <<>> THEN meta_raw
    ELSE IF Contains(Head(lines), META_OPEN)
    THEN MetaRaw(Tail(lines), TRUE, meta_raw)
    ELSE IF in_meta
    THEN MetaRaw(Tail(lines), in_meta, Append(meta_raw, Head(lines)))
    ELSE IF Contains(Head(lines), META_END) THEN meta_raw
    ELSE MetaRaw(Tail(lines), in_meta, meta_raw)

\* the metadata account_convert reads out of notes: json.loads of the
\* joined lines, or {} without parsing when notes hold no "--meta--"
ParseMeta(notes) ==
    IF notes # None /\ notes # <<>> /\ Contains(notes, META_OPEN)
    THEN LET notes_l == splitlines(notes)
         IN  IF notes_l # <<>>
             THEN json_loads(Join(MetaRaw(notes_l, FALSE, <<>>), <<>>))
             ELSE [ok |-> TRUE, value |-> {}]
    ELSE [ok |-> TRUE, value |-> {}]

\* adapter.validate_python(d["attributes"]), then id_ and _meta set
Parsed(d, meta) ==
    [type_ |-> d.attributes.type, id_ |-> d.id, name |-> d.attributes.name,
     role |-> d.attributes.account_role,
     currency_code |-> d.attributes.currency_code,
     include_net_worth |-> d.attributes.include_net_worth,
     notes |-> d.attributes.notes, _meta |-> meta]

RECURSIVE account_convert(_, _)
\* FF3Operator.account_convert over the raw records not yet converted:
\* what it raises and the _accounts it leaves
account_convert(raw, accs) ==
    IF raw = <<>> THEN [raised |-> "none", accounts |-> accs]
    ELSE LET meta == ParseMeta(Head(raw).attributes.notes)
         IN  IF ~meta.ok THEN [raised |-> "JSONDecodeError", accounts |-> accs]
             ELSE account_convert(Tail(raw),
                                  Append(accs, Parsed(Head(raw), meta.value)))

GetRequests(pages) == [i \in 1..Len(pages) |-> [method |-> "GET", arg |-> pages[i]]]

\* FF3Operator.account_fetch on an operator with the caches raw and accs,
\* against a server holding s
account_fetch(f, s, raw, accs) ==
    LET g == get_paged(f, s, 0, NoFault)
    IN  IF g.raised # "none"
        THEN [raised |-> g.raised, raw |-> raw, accounts |-> accs,
              requests |-> GetRequests(g.requests)]
        ELSE LET c == account_convert(g.ret[1], accs)
             IN  [raised |-> c.raised, raw |-> g.ret[1], accounts |-> c.accounts,
                  requests |-> GetRequests(g.requests)]

\* the fetch that account_list and account_del_imported start with when
\* nothing is cached
FetchIfEmpty(f, s, raw, accs) ==
    IF Len(raw) = 0 THEN account_fetch(f, s, raw, accs)
    ELSE [raised |-> "none", raw |-> raw, accounts |-> accs, requests |-> <<>>]

RECURSIVE DeleteLoop(_, _, _, _, _)
\* the loop of account_del_imported over the cached raw records
DeleteLoop(f, s, raw, reqs, pr) ==
    IF raw = <<>>
    THEN [raised |-> "none", srv |-> s, requests |-> reqs, printed |-> pr]
    ELSE IF IsImported(Head(raw).attributes.notes)
    THEN LET d == SrvDelete(s, Head(raw).id)
             r == client_delete(f, d.res)
             sent == Append(reqs, [method |-> "DELETE", arg |-> Head(raw).id])
             out == Append(pr, [how |-> "Deleting account", what |-> Head(raw).id])
                        \o r.printed
         IN  IF r.raised # "none"
             THEN [raised |-> r.raised, srv |-> d.srv, requests |-> sent,
                   printed |-> out]
             ELSE DeleteLoop(f, d.srv, Tail(raw), sent, out)
    ELSE DeleteLoop(f, s, Tail(raw), reqs,
                    Append(pr, [how |-> "Skipping account", what |-> Head(raw).id]))

\* FF3Operator.account_del_imported
account_del_imported(f, s, raw, accs) ==
    LET c == FetchIfEmpty(f, s, raw, accs)
    IN  IF c.raised # "none"
        THEN [raised |-> c.raised, srv |-> s, raw |-> c.raw,
              accounts |-> c.accounts, requests |-> c.requests, printed |-> <<>>]
        ELSE LET d == DeleteLoop(f, s, c.raw, c.requests, <<>>)
             IN  [raised |-> d.raised, srv |-> d.srv, raw |-> c.raw,
                  accounts |-> c.accounts, requests |-> d.requests,
                  printed |-> d.printed]

\* FF3Operator.account_create
account_create(f, s, nid, acc) ==
    LET p == SrvPost(s, nid, to_dict(acc))
        r == client_post(f, p.res)
    IN  [raised |-> r.raised, ret |-> r.ret, srv |-> p.srv, next_id |-> nid + 1,
         requests |-> <<[method |-> "POST", arg |-> to_dict(acc)]>>,
         printed |-> r.printed]

RECURSIVE ImportLoop(_, _, _, _, _, _, _)
\* the loop of import_ over gc.accounts, with gc.account_map = amap
ImportLoop(f, s, nid, rows, amap, reqs, pr) ==
    IF rows = <<>>
    THEN [raised |-> "none", srv |-> s, next_id |-> nid, requests |-> reqs,
          printed |-> pr]
    ELSE LET c == convert_account(Head(rows), amap)
         IN  IF c.raised # "none"
             THEN [raised |-> c.raised, srv |-> s, next_id |-> nid,
                   requests |-> reqs, printed |-> pr]
             ELSE IF c.ret = <<>>
             THEN ImportLoop(f, s, nid, Tail(rows), c.account_map, reqs, pr)
             ELSE LET a == account_create(f, s, nid, c.ret[1])
                  IN  IF a.raised # "none"
                      THEN [raised |-> a.raised, srv |-> a.srv,
                            next_id |-> a.next_id,
                            requests |-> reqs \o a.requests,
                            printed |-> pr \o a.printed]
                      ELSE ImportLoop(f, a.srv, a.next_id, Tail(rows),
                                      c.account_map, reqs \o a.requests,
                                      pr \o a.printed)

\* import_, first part: with do_clear, account_del_imported on the
\* operator of a new run of the program, whose caches are empty
import_clear(f, s, do_clear) ==
    IF do_clear THEN account_del_imported(f, s, <<>>, <<>>)
    ELSE [raised |-> "none", srv |-> s, raw |-> <<>>, accounts |-> <<>>,
          requests |-> <<>>, printed |-> <<>>]

\* import_, second part, after the first part ended as d: the rows of the
\* file are translated and created
import_rows(f, d, nid, rows) ==
    IF d.raised # "none"
    THEN [raised |-> d.raised, srv |-> d.srv, next_id |-> nid, raw |-> d.raw,
          accounts |-> d.accounts, requests |-> d.requests,
          printed |-> d.printed]
    ELSE LET l == ImportLoop(f, d.srv, nid, rows, {}, d.requests, d.printed)
         IN  [raised |-> l.raised, srv |-> l.srv, next_id |-> l.next_id,
              raw |-> d.raw, accounts |-> d.accounts,
              requests |-> l.requests, printed |-> l.printed]

-----------------------------------------------------------------------------
(* The operator and the import command against a server that serves every *)
(* request                                                                 *)

\* the rows of the CSV files: the importable accounts, a category account
\* and a liability
FileRows ==
    Importable \cup
        {[type_ |-> "ASSET", name_full |-> S_Assets, name |-> "Assets",
          description |-> <<>>, symbol |-> "EUR"],
         [type_ |-> "LIABILITY", name_full |-> S_Abc, name |-> "c",
          description |-> <<>>, symbol |-> "EUR"]}

Init ==
    /\ InitCommon
    /\ fail = TRUE
    /\ srv \in {WithIds(q) : q \in SeqsUpTo(SrvAttrs, MaxInitial)}
    /\ next_id = Len(srv) + 1
    /\ _accounts_raw = <<>>
    /\ _accounts = <<>>
    /\ account_map = {}

Before == [srv |-> srv, raw |-> _accounts_raw]

AccountFetch ==
    \E r \in {account_fetch(fail, srv, _accounts_raw, _accounts)} :
        /\ Len(r.accounts) <= MaxCache
        /\ op' = [name |-> "account_fetch", arg |-> <<Before>>]
        /\ raised' = r.raised
        /\ ret' = <<>>
        /\ _accounts_raw' = r.raw
        /\ _accounts' = r.accounts
        /\ requests' = r.requests
        /\ printed' = <<>>
        /\ UNCHANGED <<fail, srv, next_id, account_map>>

AccountList ==
    \E r \in {FetchIfEmpty(fail, srv, _accounts_raw, _accounts)} :
        /\ Len(r.accounts) <= MaxCache
        /\ op' = [name |-> "account_list", arg |-> <<Before>>]
        /\ raised' = r.raised
        /\ ret' = IF r.raised = "none" THEN <<r.raw>> ELSE <<>>
        /\ _accounts_raw' = r.raw
        /\ _accounts' = r.accounts
        /\ requests' = r.requests
        /\ printed' = <<>>
        /\ UNCHANGED <<fail, srv, next_id, account_map>>

AccountDelImported ==
    \E r \in {account_del_imported(fail, srv, _accounts_raw, _accounts)} :
        /\ Len(r.accounts) <= MaxCache
        /\ op' = [name |-> "account_del_imported", arg |-> <<Before>>]
        /\ raised' = r.raised
        /\ ret' = <<>>
        /\ srv' = r.srv
        /\ _accounts_raw' = r.raw
        /\ _accounts' = r.accounts
        /\ requests' = r.requests
        /\ printed' = r.printed
        /\ UNCHANGED <<fail, next_id, account_map>>

AccountCreate(acc) ==
    \E r \in {account_create(fail, srv, next_id, acc)} :
        /\ Len(srv) < MaxServer
        /\ next_id <= MaxId
        /\ op' = [name |-> "account_create", arg |-> <<Before, acc>>]
        /\ raised' = r.raised
        /\ ret' = r.ret
        /\ srv' = r.srv
        /\ next_id' = r.next_id
        /\ requests' = r.requests
        /\ printed' = r.printed
        /\ UNCHANGED <<fail, _accounts_raw, _accounts, account_map>>

\* the command `import gnucash-accounts <file> [--do-clear]`, for every file
Import(do_clear) ==
    \E d \in {import_clear(fail, srv, do_clear)} :
        \E rows \in SeqsUpTo(FileRows, MaxRows) :
            \E r \in {import_rows(fail, d, next_id, rows)} :
                /\ Len(r.srv) <= MaxServer
                /\ r.next_id <= MaxId + 1
                /\ op' = [name |-> "import", arg |-> <<Before, rows, do_clear>>]
                /\ raised' = r.raised
                /\ ret' = <<>>
                /\ srv' = r.srv
                /\ next_id' = r.next_id
                /\ _accounts_raw' = r.raw
                /\ _accounts' = r.accounts
                /\ requests' = r.requests
                /\ printed' = r.printed
                /\ UNCHANGED <<fail, account_map>>

Next ==
    \/ AccountFetch
    \/ AccountList
    \/ AccountDelImported
    \/ \E g \in Importable : AccountCreate(convert_account(g, {}).ret[1])
    \/ \E do_clear \in BOOLEAN : Import(do_clear)

Spec == Init /\ [][Next]_vars


-----------------------------------------------------------------------------
(* Claims about the operator and the import command, under Spec *)

Marked(d) ==
    d.attributes.notes # None /\ Contains(d.attributes.notes, MARKER)

Unmarked(d) == ~Marked(d)

Range(q) == {q[i] : i \in 1..Len(q)}

\* C2: on an operator with an empty cache, account_del_imported runs to
\* completion, sends a DELETE for exactly the server's accounts whose notes
\* hold the marker, and leaves the server with exactly the other accounts.
C2_DeletesExactlyMarked ==
    (op.name = "account_del_imported" /\ op.arg[1].raw = <<>>) =>
        /\ raised = "none"
        /\ {r.arg : r \in {q \in Range(requests) : q.method = "DELETE"}}
               = {d.id : d \in {e \in Range(op.arg[1].srv) : Marked(e)}}
        /\ srv = SelectSeq(op.arg[1].srv, Unmarked)

\* what one run of the import of rows leaves on an empty server
SingleRun(rows) == import_rows(TRUE, import_clear(TRUE, <<>>, TRUE), 1, rows)

\* C3: `import gnucash-accounts` with do_clear, run against a server that
\* already holds the accounts an earlier run of the same file created,
\* completes, sends its DELETE requests before its POST requests, and
\* leaves each account the file imports on the server exactly once.
C3_ImportCanBeRerun ==
    LET rows == op.arg[2]
        once == SingleRun(rows)
        held == {d.attributes : d \in Range(op.arg[1].srv)}
    IN  (/\ op.name = "import"
         /\ op.arg[3]
         /\ once.raised = "none"
         /\ once.srv # <<>>
         /\ \A d \in Range(once.srv) : d.attributes \in held)
        => /\ raised = "none"
           /\ \A i, j \in 1..Len(requests) :
                  (requests[i].method = "POST" /\ requests[j].method = "DELETE")
                      => j < i
           /\ \A d \in Range(once.srv) :
                  Cardinality({i \in 1..Len(srv) :
                                  srv[i].attributes = d.attributes}) = 1

\* C9: for a fetched account whose notes are those convert_account writes
\* for a source account of full name F, account_convert completes and the
\* parsed record's _meta is {"name": F}.
C9_FetchParsesMetaBlock ==
    op.name = "account_fetch" =>
        \A d \in Range(_accounts_raw) : \A g \in Importable :
            d.attributes.notes = convert_account(g, {}).ret[1].notes =>
                /\ raised = "none"
                /\ \E a \in Range(_accounts) :
                       a.id_ = d.id /\ a._meta = {<<"name", g.name_full>>}

\* C10: after any sequence of operator operations, the last of which
\* completed, _accounts holds one record per entry of _accounts_raw, in the
\* same order (same length, matching ids).
C10_ParsedCacheMirrorsRaw ==
    raised = "none" =>
        /\ Len(_accounts) = Len(_accounts_raw)
        /\ \A i \in 1..Len(_accounts_raw) :
               _accounts[i].id_ = _accounts_raw[i].id

=============================================================================
